---- MODULE Spec2Model ----
(***************************************************************************)
(* The JSON command layer of felpsbot_redis: AsyncJSONCommands builds one  *)
(* token list per operation and hands it to execute_command, which either  *)
(* sends it (client) or queues it (Pipeline); Pipeline.execute flushes the *)
(* queue to the store.                                                     *)
(*                                                                         *)
(* Python values are tagged tuples: <<"none">>, <<"int", n>>, <<"str", s>>.*)
(* An Optional argument is a sequence of length at most one: <<>> is an    *)
(* omitted argument (or None), <<x>> a supplied one.  A command is the     *)
(* sequence of its wire tokens, the verb first; an int token is rendered   *)
(* in decimal, as the connection encoder does.                             *)
(***************************************************************************)
EXTENDS Integers, Sequences, FiniteSets, TLC

\* Every field of the model's records: a call and its arguments, a pipeline,
\* a builder's outcome, the store's answer.  Records list their fields in
\* this order throughout.
Fields ==
    [args : Any, asked : Any, caller : Any, cmd : Any, command_stack : Any,
     commands : Any, dest : Any, doc : Any, done : Any, emitted : Any,
     expiry : Any, index : Any, key : Any, keys : Any, name : Any,
     no_escape : Any, number : Any, nx : Any, obj : Any, op : Any,
     path : Any, raise_on_error : Any, raised : Any, replies : Any,
     reply : Any, ret : Any, s : Any, scalar : Any, start : Any, state : Any,
     stop : Any, subcommand : Any, target : Any, transaction : Any,
     triplets : Any, ttl : Any, value : Any, writer : Any, xx : Any]

\* ---------------------------------------------------------------- bounds
\* longest command_stack of the caller's pipeline
MaxQueue == 2
\* number of times the caller's pipeline is executed
MaxExec == 2

\* ------------------------------------------------------- input universes
Keys == {"k1", "k2"}
PyNone == <<"none">>
PyInt(n) == <<"int", n>>
PyStr(s) == <<"str", s>>
JsonVals == {PyNone, PyInt(1), PyStr("s")}
Idx == {0, 1}
OptIdx == {<<>>} \cup {<<i>> : i \in Idx}
Subcommands == {"MEMORY", "HELP", "STATS", "memory"}

\* Path.root_path()
RootPath == "."
Paths == {RootPath, ".a"}
OptPath == {<<>>} \cup {<<p>> : p \in Paths}
Ttls == {0, 1}
OptTtl == {<<>>} \cup {<<t>> : t \in Ttls}

\* ------------------------------------------------------------ conversions
\* str(int) as the connection writes an int token
IntTok(n) ==
    CASE n = -1 -> "-1"
      [] n = 0 -> "0"
      [] n = 1 -> "1"
      [] n = 2 -> "2"
      [] n = 3 -> "3"
      [] OTHER -> "n"

\* self._encode(obj): JSONEncoder().encode
_encode(obj) ==
    CASE obj[1] = "none" -> "null"
      [] obj[1] = "int" -> IntTok(obj[2])
      [] obj[1] = "str" -> "\"" \o obj[2] \o "\""

\* str(path)
Str(path) == path

\* repr of a str inside str(list)
PyRepr(s) == "'" \o s \o "'"

\* a parameter declared `path = Path.root_path()`
DefaultRootMutant(path) == IF path = <<>> THEN "$" ELSE path[1]
DefaultRoot(path) == IF path = <<>> THEN RootPath ELSE path[1]

\* a builder's outcome: the exception it raised (<<>> for none) and the
\* command it passed to execute_command (<<>> when it raised)
Built(cmd) == [cmd |-> cmd, raised |-> <<>>]
Raise(exc) == [cmd |-> <<>>, raised |-> exc]

RECURSIVE EncodeAll(_)
EncodeAll(objs) ==
    IF objs = <<>> THEN <<>>
    ELSE <<_encode(Head(objs))>> \o EncodeAll(Tail(objs))

\* ---------------------------------------------------------------- builders
arrappend(name, path, args) ==
    Built(<<"JSON.ARRAPPEND", name, Str(DefaultRoot(path))>> \o EncodeAll(args))

arrindex(name, path, scalar, start, stop) ==
    Built(<<"JSON.ARRINDEX", name, Str(path), _encode(scalar)>>
          \o (IF start # <<>>
              THEN <<IntTok(start[1])>>
                   \o (IF stop # <<>> THEN <<IntTok(stop[1])>> ELSE <<>>)
              ELSE <<>>))

arrinsert(name, path, index, args) ==
    Built(<<"JSON.ARRINSERT", name, Str(path), IntTok(index)>> \o EncodeAll(args))

arrlen(name, path) == Built(<<"JSON.ARRLEN", name, Str(DefaultRoot(path))>>)

\* index defaults to -1
arrpop(name, path, index) ==
    Built(<<"JSON.ARRPOP", name, Str(DefaultRoot(path)),
            IntTok(IF index = <<>> THEN -1 ELSE index[1])>>)

arrtrim(name, path, start, stop) ==
    Built(<<"JSON.ARRTRIM", name, Str(path), IntTok(start), IntTok(stop)>>)

type(name, path) == Built(<<"JSON.TYPE", name, Str(DefaultRoot(path))>>)

resp(name, path) == Built(<<"JSON.RESP", name, Str(DefaultRoot(path))>>)

objkeys(name, path) == Built(<<"JSON.OBJKEYS", name, Str(DefaultRoot(path))>>)

objlen(name, path) == Built(<<"JSON.OBJLEN", name, Str(DefaultRoot(path))>>)

numincrby(name, path, number) ==
    Built(<<"JSON.NUMINCRBY", name, Str(path), _encode(number)>>)

clear(name, path) == Built(<<"JSON.CLEAR", name, Str(DefaultRoot(path))>>)

delete(key, path) == Built(<<"JSON.DEL", key, Str(DefaultRoot(path))>>)

\* args is the sequence of paths; no path at all means the root path
getMutant(name, args, no_escape) ==
    Built(<<"JSON.GET", name>>
          \o (IF Len(args) = 0 THEN <<RootPath>> ELSE [i \in 1..Len(args) |-> Str(args[i])])
          \o (IF no_escape THEN <<"noescape">> ELSE <<>>))
get(name, args, no_escape) ==
    Built(<<"JSON.GET", name>>
          \o (IF no_escape THEN <<"noescape">> ELSE <<>>)
          \o (IF Len(args) = 0 THEN <<RootPath>> ELSE [i \in 1..Len(args) |-> Str(args[i])]))

mget(keys, path) == Built(<<"JSON.MGET">> \o keys \o <<Str(path)>>)

NxXxError ==
    <<"Exception",
      "nx and xx are mutually exclusive: use one, the other or neither - but not both">>

\* the pieces of JSON.SET, or the exception for nx and xx together
setMutant(name, path, obj, nx, xx) ==
    Built(<<"JSON.SET", name, Str(path), _encode(obj)>>
          \o (IF nx THEN <<"NX">> ELSE <<>>)
          \o (IF xx THEN <<"XX">> ELSE <<>>))
set(name, path, obj, nx, xx) ==
    IF nx /\ xx THEN Raise(NxXxError)
    ELSE Built(<<"JSON.SET", name, Str(path), _encode(obj)>>
               \o (IF nx THEN <<"NX">> ELSE IF xx THEN <<"XX">> ELSE <<>>))

RECURSIVE msetPieces(_)
msetPieces(triplets) ==
    IF triplets = <<>> THEN <<>>
    ELSE <<Head(triplets)[1], Str(Head(triplets)[2]), _encode(Head(triplets)[3])>>
         \o msetPieces(Tail(triplets))
mset(triplets) == Built(<<"JSON.MSET">> \o msetPieces(triplets))

merge(name, path, obj) == Built(<<"JSON.MERGE", name, Str(path), _encode(obj)>>)

\* path defaults to None, and None appends no path token
strlen(name, path) ==
    Built(<<"JSON.STRLEN", name>> \o (IF path # <<>> THEN <<Str(path[1])>> ELSE <<>>))

toggle(name, path) == Built(<<"JSON.TOGGLE", name, Str(DefaultRoot(path))>>)

strappend(name, value, path) ==
    Built(<<"JSON.STRAPPEND", name, Str(DefaultRoot(path)), _encode(value)>>)

valid_subcommands == <<"MEMORY", "HELP">>
InList(x, list) == \E i \in 1..Len(list) : list[i] = x

\* str(valid_subcommands), cut at the element boundaries
StrList(list) ==
    <<"[">> \o [i \in 1..(2 * Len(list) - 1) |->
                   IF i % 2 = 1 THEN PyRepr(list[(i + 1) \div 2]) ELSE ", "]
    \o <<"]">>

debugError(subcommand) ==
    <<"DataError", "The only valid subcommands are ">> \o StrList(valid_subcommands)

debugMutant(subcommand, key, path) ==
    IF subcommand = "MEMORY"
    THEN IF key = <<>> THEN Raise(<<"DataError", "No key specified">>)
         ELSE Built(<<"JSON.DEBUG", subcommand, key[1], Str(DefaultRoot(path))>>)
    ELSE Built(<<"JSON.DEBUG", subcommand>>)
debug(subcommand, key, path) ==
    IF ~InList(subcommand, valid_subcommands) THEN Raise(debugError(subcommand))
    ELSE IF subcommand = "MEMORY"
    THEN IF key = <<>> THEN Raise(<<"DataError", "No key specified">>)
         ELSE Built(<<"JSON.DEBUG", subcommand, key[1], Str(DefaultRoot(path))>>)
    ELSE Built(<<"JSON.DEBUG", subcommand>>)

\* ------------------------------------------------------------------ state
VARIABLES
    doc,       \* the store: key -> <<>> (no such key) or <<JSON text>>
    expiry,    \* the store: key -> seconds to live, 0 for none
    writer,    \* which kind of call wrote doc[key]: "none", "plain", "ttl"
    pipe,      \* the caller's pipeline ("user") and the one set creates ("inner")
    nexec,     \* completed executes of the caller's pipeline
    call       \* the facade call that acted last, with what it emitted and returned

vars == <<doc, expiry, writer, pipe, nexec, call>>

\* keys and values of the client's calls
StoreKeys == Keys
\* keys and values of the calls made where a pipeline is composed
PipeKeys == {"k1"}
StoreVals == {PyNone, PyStr("s")}
PipeVals == {PyNone}

NoPipe == [args |-> <<>>, asked |-> <<>>, caller |-> "none", command_stack |-> <<>>,
           raise_on_error |-> TRUE, replies |-> <<>>, state |-> "none",
           transaction |-> FALSE]

NoCall == [args |-> <<>>, done |-> TRUE, emitted |-> <<>>, op |-> "none",
           raised |-> <<>>, reply |-> <<>>, ret |-> <<>>, target |-> "none"]

Init ==
    /\ doc = [k \in Keys |-> <<>>]
    /\ expiry = [k \in Keys |-> 0]
    /\ writer = [k \in Keys |-> "none"]
    /\ pipe = [id \in {"user", "inner"} |-> NoPipe]
    /\ nexec = 0
    /\ call = NoCall

\* ------------------------------------------------------------- the store
\* A reply is <<"ok">>, <<"nil">>, <<"int", n>>, <<"bulk", text>> or <<"err">>.
TokInt(tok) == CHOOSE n \in -1..3 : IntTok(n) = tok

Store == [doc |-> doc, expiry |-> expiry, writer |-> writer]

Answer(s, reply) == [reply |-> reply, s |-> s]

\* the store executing one command; who is the kind of call that sent it
StoreApply(s, cmd, who) ==
    LET key == cmd[2]
        exists == s.doc[key] # <<>>
    IN
    CASE cmd[1] = "JSON.SET" ->
            IF Len(cmd) > 5 \/ cmd[3] # RootPath THEN Answer(s, <<"err">>)
            ELSE IF Len(cmd) = 5 /\ ((cmd[5] = "NX" /\ exists) \/ (cmd[5] = "XX" /\ ~exists))
            THEN Answer(s, <<"nil">>)
            ELSE Answer([doc |-> [s.doc EXCEPT ![key] = <<cmd[4]>>],
                         expiry |-> [s.expiry EXCEPT ![key] = 0],
                         writer |-> [s.writer EXCEPT ![key] = who]], <<"ok">>)
      [] cmd[1] = "EXPIRE" ->
            IF exists
            THEN Answer([s EXCEPT !.expiry[key] = TokInt(cmd[3])], <<"int", 1>>)
            ELSE Answer(s, <<"int", 0>>)
      [] cmd[1] = "JSON.GET" ->
            IF ~exists THEN Answer(s, <<"nil">>)
            ELSE IF cmd[Len(cmd)] = RootPath THEN Answer(s, <<"bulk", s.doc[key][1]>>)
            ELSE Answer(s, <<"err">>)
      [] cmd[1] = "JSON.DEL" ->
            IF exists /\ cmd[3] = RootPath
            THEN Answer([doc |-> [s.doc EXCEPT ![key] = <<>>],
                         expiry |-> [s.expiry EXCEPT ![key] = 0],
                         writer |-> [s.writer EXCEPT ![key] = "none"]], <<"int", 1>>)
            ELSE Answer(s, <<"int", 0>>)
      [] cmd[1] = "JSON.STRLEN" ->
            IF ~exists THEN Answer(s, <<"nil">>)
            ELSE IF (Len(cmd) = 2 \/ cmd[3] = RootPath) /\ s.doc[key][1] = _encode(PyStr("s"))
            THEN Answer(s, <<"int", 1>>)
            ELSE Answer(s, <<"err">>)
      [] OTHER -> Answer(s, <<"err">>)

\* a MULTI/EXEC block, or any run of commands the store executes back to back
RECURSIVE StoreApplyAll(_, _, _)
StoreApplyAll(s, cmds, who) ==
    IF cmds = <<>> THEN [replies |-> <<>>, s |-> s]
    ELSE LET a == StoreApply(s, Head(cmds), who)
             rest == StoreApplyAll(a.s, Tail(cmds), who)
         IN [replies |-> <<a.reply>> \o rest.replies, s |-> rest.s]

\* self._decode: JSONDecoder().decode of the JSON text
_decode(text) ==
    CASE text = "null" -> PyNone
      [] text = "1" -> PyInt(1)
      [] OTHER -> PyStr("s")

\* the response callback of a command applied to its reply; a store error is
\* the exception
Callback(cmd, reply) ==
    CASE reply[1] = "err" -> <<"exc", "ResponseError">>
      [] reply[1] = "nil" -> PyNone
      [] reply[1] = "ok" -> <<"bool", TRUE>>
      [] reply[1] = "bulk" -> _decode(reply[2])
      [] reply[1] = "int" ->
            IF cmd[1] = "EXPIRE" THEN <<"bool", reply[2] = 1>> ELSE PyInt(reply[2])

IsExc(v) == v[1] = "exc"

\* ------------------------------------------------------- facade plumbing
Emit(dest, cmd) == [cmd |-> cmd, dest |-> dest]

\* AsyncJSON.pipeline(transaction=True), and Redis.pipeline on a pipeline
pipelineMutant(transaction) ==
    [NoPipe EXCEPT !.state = "open",
                   !.transaction = IF transaction = <<>> THEN FALSE ELSE transaction[1]]
pipeline(transaction) ==
    [NoPipe EXCEPT !.state = "open",
                   !.transaction = IF transaction = <<>> THEN TRUE ELSE transaction[1]]

\* Redis.execute_command: one round trip, the reply through its callback
ClientCommand(op, args, cmd) ==
    LET a == StoreApply(Store, cmd, "plain")
        r == Callback(cmd, a.reply)
    IN /\ doc' = a.s.doc
       /\ expiry' = a.s.expiry
       /\ writer' = a.s.writer
       /\ call' = [args |-> args, done |-> TRUE, emitted |-> <<Emit("store", cmd)>>,
                   op |-> op, raised |-> IF IsExc(r) THEN <<"ResponseError">> ELSE <<>>,
                   reply |-> a.reply, ret |-> IF IsExc(r) THEN <<>> ELSE r,
                   target |-> "client"]
       /\ UNCHANGED <<pipe, nexec>>

\* Pipeline.execute_command: the command joins the stack, the pipeline is returned
PipeCommand(op, args, cmd) ==
    /\ Len(pipe.user.command_stack) < MaxQueue
    /\ pipe' = [pipe EXCEPT !.user.command_stack = Append(@, cmd)]
    /\ call' = [args |-> args, done |-> TRUE, emitted |-> <<Emit("user", cmd)>>,
                op |-> op, raised |-> <<>>, reply |-> <<>>, ret |-> <<"pipeline">>,
                target |-> "user"]
    /\ UNCHANGED <<doc, expiry, writer, nexec>>

execute_command(target, op, args, cmd) ==
    IF target = "client" THEN ClientCommand(op, args, cmd)
    ELSE PipeCommand(op, args, cmd)

\* the call raised before execute_command
Raised(target, op, args, exc) ==
    /\ call' = [args |-> args, done |-> TRUE, emitted |-> <<>>, op |-> op,
                raised |-> exc, reply |-> <<>>, ret |-> <<>>, target |-> target]
    /\ UNCHANGED <<doc, expiry, writer, pipe, nexec>>

\* a facade object that can be called: the client always (by any coroutine),
\* the caller's pipeline by its one writer, who is not suspended in execute
\* nor in a set awaiting its own pipeline
Callable(target) ==
    \/ target = "client"
    \/ /\ pipe.user.state = "open"
       /\ ~(pipe.inner.state = "executing" /\ pipe.inner.caller = "user")

\* pipe.execute_command("JSON.SET", *pieces); pipe.expire(name, ttl)
TtlStack(cmd, name, ttl) == <<cmd, <<"EXPIRE", name, IntTok(ttl)>>>>

\* the raise_on_error execute runs with: the caller's, or the default
RaiseOnErrorMutant(asked) == IF asked = <<>> THEN FALSE ELSE asked[1]
RaiseOnError(asked) == IF asked = <<>> THEN TRUE ELSE asked[1]

\* ---------------------------------------------------------------- actions
\* pipe = client.json.pipeline(transaction)
Pipeline ==
    \E transaction \in {<<>>, <<TRUE>>, <<FALSE>>} :
        /\ pipe.user.state = "none"
        /\ pipe' = [pipe EXCEPT !.user = pipeline(transaction)]
        /\ UNCHANGED <<doc, expiry, writer, nexec, call>>

\* set, up to the await of execute_command or of pipe.execute
Set(target, keys, vals) ==
    \E name \in keys, obj \in vals, nx \in BOOLEAN, xx \in BOOLEAN, ttl \in OptTtl :
        LET b == set(name, RootPath, obj, nx, xx)
            args == [name |-> name, nx |-> nx, obj |-> obj, path |-> RootPath,
                     ttl |-> ttl, xx |-> xx]
        IN /\ Callable(target)
           /\ IF b.raised # <<>> THEN Raised(target, "set", args, b.raised)
              ELSE IF ttl # <<>> /\ ttl[1] > 0
              THEN /\ pipe.inner.state = "none"
                   /\ pipe' = [pipe EXCEPT !.inner =
                                 [pipeline(<<>>) EXCEPT
                                    !.state = "executing",
                                    !.command_stack = TtlStack(b.cmd, name, ttl[1]),
                                    !.caller = target, !.args = args,
                                    !.raise_on_error = RaiseOnError(<<>>)]]
                   /\ call' = [args |-> args, done |-> FALSE,
                               emitted |-> [i \in 1..2 |->
                                   Emit("inner", TtlStack(b.cmd, name, ttl[1])[i])],
                               op |-> "set", raised |-> <<>>, reply |-> <<>>,
                               ret |-> <<>>, target |-> target]
                   /\ UNCHANGED <<doc, expiry, writer, nexec>>
              ELSE execute_command(target, "set", args, b.cmd)

Get(target, keys) ==
    \E name \in keys, path \in {<<>>, <<RootPath>>} :
        /\ Callable(target)
        /\ execute_command(target, "get", [args |-> path, name |-> name],
                           get(name, path, FALSE).cmd)

Delete(target, keys) ==
    \E key \in keys :
        /\ Callable(target)
        /\ execute_command(target, "delete", [key |-> key, path |-> <<>>],
                           delete(key, <<>>).cmd)

Strlen(target, keys) ==
    \E name \in keys :
        /\ Callable(target)
        /\ execute_command(target, "strlen", [name |-> name, path |-> <<>>],
                           strlen(name, <<>>).cmd)

\* Pipeline.execute(raise_on_error=True), up to the round trip
Execute ==
    \E asked \in {<<>>, <<TRUE>>, <<FALSE>>} :
        /\ Callable("user")
        /\ nexec < MaxExec
        /\ IF pipe.user.command_stack = <<>>
           THEN /\ call' = [args |-> [commands |-> <<>>, raise_on_error |-> asked],
                            done |-> TRUE, emitted |-> <<>>, op |-> "execute",
                            raised |-> <<>>, reply |-> <<>>, ret |-> <<"list", <<>>>>,
                            target |-> "user"]
                /\ nexec' = nexec + 1
                /\ UNCHANGED <<doc, expiry, writer, pipe>>
           ELSE /\ pipe' = [pipe EXCEPT
                              !.user.state = "executing",
                              !.user.asked = asked,
                              !.user.raise_on_error = RaiseOnError(asked)]
                /\ UNCHANGED <<doc, expiry, writer, nexec, call>>

\* the store serving a pipeline in flight: a transaction as one step, a
\* plain pipeline one command at a time, other clients in between
StoreExec ==
    \E id \in {"user", "inner"} :
        LET p == pipe[id]
            who == IF id = "inner" THEN "ttl" ELSE "plain"
            n == Len(p.replies)
        IN /\ p.state = "executing"
           /\ n < Len(p.command_stack)
           /\ IF p.transaction
              THEN LET r == StoreApplyAll(Store, p.command_stack, who)
                   IN /\ doc' = r.s.doc
                      /\ expiry' = r.s.expiry
                      /\ writer' = r.s.writer
                      /\ pipe' = [pipe EXCEPT ![id].replies = r.replies]
              ELSE LET a == StoreApply(Store, p.command_stack[n + 1], who)
                   IN /\ doc' = a.s.doc
                      /\ expiry' = a.s.expiry
                      /\ writer' = a.s.writer
                      /\ pipe' = [pipe EXCEPT ![id].replies = Append(@, a.reply)]
           /\ UNCHANGED <<nexec, call>>

Results(p) ==
    [i \in 1..Len(p.command_stack) |-> Callback(p.command_stack[i], p.replies[i])]

FirstError(results) ==
    CHOOSE i \in 1..Len(results) :
        IsExc(results[i]) /\ \A j \in 1..(i - 1) : ~IsExc(results[j])

\* what execute hands back: the results, or the first error raised
ExecuteResponse(results, raise_on_error) ==
    IF raise_on_error /\ \E i \in 1..Len(results) : IsExc(results[i])
    THEN [raised |-> <<"ResponseError", IntTok(FirstError(results))>>, ret |-> <<>>]
    ELSE [raised |-> <<>>, ret |-> <<"list", results>>]

\* the command_stack after execute
ResetMutant(stack) == stack
Reset(stack) == <<>>

\* execute returning: to the caller of the user pipeline, or to set
ExecuteReturn ==
    \E id \in {"user", "inner"} :
        LET p == pipe[id]
            r == ExecuteResponse(Results(p), p.raise_on_error)
        IN /\ p.state = "executing"
           /\ Len(p.replies) = Len(p.command_stack)
           /\ IF id = "user"
              THEN /\ pipe' = [pipe EXCEPT
                                 !.user.state = "open",
                                 !.user.command_stack = Reset(@),
                                 !.user.replies = <<>>]
                   /\ nexec' = nexec + 1
                   /\ call' = [args |-> [commands |-> p.command_stack,
                                         raise_on_error |-> p.asked],
                               done |-> TRUE, emitted |-> <<>>, op |-> "execute",
                               raised |-> r.raised, reply |-> p.replies, ret |-> r.ret,
                               target |-> "user"]
              ELSE /\ pipe' = [pipe EXCEPT !.inner = NoPipe]
                   /\ nexec' = nexec
                   /\ call' = [args |-> p.args, done |-> TRUE,
                               emitted |-> [i \in 1..Len(p.command_stack) |->
                                               Emit("inner", p.command_stack[i])],
                               op |-> "set", raised |-> r.raised, reply |-> p.replies,
                               ret |-> r.ret, target |-> p.caller]
           /\ UNCHANGED <<doc, expiry, writer>>

\* the store dropping a key whose time to live has run out
KeyExpires ==
    \E k \in Keys :
        /\ expiry[k] > 0
        /\ doc' = [doc EXCEPT ![k] = <<>>]
        /\ expiry' = [expiry EXCEPT ![k] = 0]
        /\ writer' = [writer EXCEPT ![k] = "none"]
        /\ UNCHANGED <<pipe, nexec, call>>

\* the client's calls against the store
Next ==
    \/ Set("client", StoreKeys, StoreVals)
    \/ Get("client", StoreKeys)
    \/ Delete("client", StoreKeys)
    \/ Strlen("client", StoreKeys)
    \/ StoreExec
    \/ ExecuteReturn
    \/ KeyExpires

Spec == Init /\ [][Next]_vars

\* one writer composing and executing a pipeline
NextPipe ==
    \/ Pipeline
    \/ Set("user", PipeKeys, PipeVals)
    \/ Get("user", PipeKeys)
    \/ Strlen("user", PipeKeys)
    \/ Execute
    \/ StoreExec
    \/ ExecuteReturn

SpecPipe == Init /\ [][NextPipe]_vars

\* set called on the client and on a pipeline
NextSet ==
    \/ Pipeline
    \/ Set("client", PipeKeys, PipeVals)
    \/ Set("user", PipeKeys, PipeVals)
    \/ StoreExec
    \/ ExecuteReturn
    \/ KeyExpires

SpecSet == Init /\ [][NextSet]_vars

\* ------------------------------------------ the facade on a recording client
\* Every operation of AsyncJSONCommands, called on a client whose
\* execute_command records the command; what the store would answer is not
\* part of this specification.
ArgLists ==
    {<<>>} \cup {<<v>> : v \in JsonVals} \cup {<<v, w>> : v \in JsonVals, w \in JsonVals}
PathLists == {<<>>} \cup {<<p>> : p \in Paths} \cup {<<p, q>> : p \in Paths, q \in Paths}
KeyLists == {<<k>> : k \in Keys} \cup {<<"k1", "k2">>}
Triplets == {<<k, RootPath, v>> : k \in Keys, v \in JsonVals}
TripletLists == {<<t>> : t \in Triplets} \cup {<<t, u>> : t \in Triplets, u \in Triplets}
OptKey == {<<>>} \cup {<<k>> : k \in Keys}

\* what the call leaves behind: the exception, or the command recorded
Recorded(op, args, b) ==
    [args |-> args, done |-> TRUE,
     emitted |-> IF b.cmd = <<>> THEN <<>> ELSE <<Emit("store", b.cmd)>>, op |-> op,
     raised |-> b.raised, reply |-> <<>>, ret |-> <<>>, target |-> "client"]

\* the store and the pipelines, which the recording client leaves alone
others == <<doc, expiry, writer, pipe, nexec>>

Arrappend ==
    \E name \in Keys, path \in OptPath, args \in ArgLists :
        /\ call' = Recorded("arrappend", [args |-> args, name |-> name, path |-> path],
                            arrappend(name, path, args))
        /\ UNCHANGED others

Arrindex ==
    \E name \in Keys, path \in Paths, scalar \in JsonVals, start \in OptIdx,
       stop \in OptIdx :
        /\ call' = Recorded("arrindex", [name |-> name, path |-> path, scalar |-> scalar,
                                         start |-> start, stop |-> stop],
                            arrindex(name, path, scalar, start, stop))
        /\ UNCHANGED others

Arrinsert ==
    \E name \in Keys, path \in Paths, index \in Idx, args \in ArgLists :
        /\ call' = Recorded("arrinsert", [args |-> args, index |-> index, name |-> name,
                                          path |-> path],
                            arrinsert(name, path, index, args))
        /\ UNCHANGED others

Arrlen ==
    \E name \in Keys, path \in OptPath :
        /\ call' = Recorded("arrlen", [name |-> name, path |-> path], arrlen(name, path))
        /\ UNCHANGED others

Arrpop ==
    \E name \in Keys, path \in OptPath, index \in OptIdx :
        /\ call' = Recorded("arrpop", [index |-> index, name |-> name, path |-> path],
                            arrpop(name, path, index))
        /\ UNCHANGED others

Arrtrim ==
    \E name \in Keys, path \in Paths, start \in Idx, stop \in Idx :
        /\ call' = Recorded("arrtrim", [name |-> name, path |-> path, start |-> start,
                                        stop |-> stop],
                            arrtrim(name, path, start, stop))
        /\ UNCHANGED others

Type ==
    \E name \in Keys, path \in OptPath :
        /\ call' = Recorded("type", [name |-> name, path |-> path], type(name, path))
        /\ UNCHANGED others

Resp ==
    \E name \in Keys, path \in OptPath :
        /\ call' = Recorded("resp", [name |-> name, path |-> path], resp(name, path))
        /\ UNCHANGED others

Objkeys ==
    \E name \in Keys, path \in OptPath :
        /\ call' = Recorded("objkeys", [name |-> name, path |-> path], objkeys(name, path))
        /\ UNCHANGED others

Objlen ==
    \E name \in Keys, path \in OptPath :
        /\ call' = Recorded("objlen", [name |-> name, path |-> path], objlen(name, path))
        /\ UNCHANGED others

Numincrby ==
    \E name \in Keys, path \in Paths, number \in {PyInt(1), PyInt(2)} :
        /\ call' = Recorded("numincrby", [name |-> name, number |-> number, path |-> path],
                            numincrby(name, path, number))
        /\ UNCHANGED others

Clear ==
    \E name \in Keys, path \in OptPath :
        /\ call' = Recorded("clear", [name |-> name, path |-> path], clear(name, path))
        /\ UNCHANGED others

DeleteRec ==
    \E key \in Keys, path \in OptPath :
        /\ call' = Recorded("delete", [name |-> key, path |-> path], delete(key, path))
        /\ UNCHANGED others

GetRec ==
    \E name \in Keys, args \in PathLists, no_escape \in BOOLEAN :
        /\ call' = Recorded("get", [args |-> args, name |-> name, no_escape |-> no_escape],
                            get(name, args, no_escape))
        /\ UNCHANGED others

Mget ==
    \E keys \in KeyLists, path \in Paths :
        /\ call' = Recorded("mget", [keys |-> keys, path |-> path], mget(keys, path))
        /\ UNCHANGED others

\* set without a time to live: one JSON.SET, or the exception
SetRec ==
    \E name \in Keys, path \in Paths, obj \in JsonVals, nx \in BOOLEAN,
       xx \in BOOLEAN, ttl \in {<<>>, <<0>>} :
        /\ call' = Recorded("set", [name |-> name, nx |-> nx, obj |-> obj, path |-> path,
                                    ttl |-> ttl, xx |-> xx],
                            set(name, path, obj, nx, xx))
        /\ UNCHANGED others

Mset ==
    \E triplets \in TripletLists :
        /\ call' = Recorded("mset", [triplets |-> triplets], mset(triplets))
        /\ UNCHANGED others

Merge ==
    \E name \in Keys, path \in Paths, obj \in JsonVals :
        /\ call' = Recorded("merge", [name |-> name, obj |-> obj, path |-> path],
                            merge(name, path, obj))
        /\ UNCHANGED others

StrlenRec ==
    \E name \in Keys, path \in OptPath :
        /\ call' = Recorded("strlen", [name |-> name, path |-> path], strlen(name, path))
        /\ UNCHANGED others

Toggle ==
    \E name \in Keys, path \in OptPath :
        /\ call' = Recorded("toggle", [name |-> name, path |-> path], toggle(name, path))
        /\ UNCHANGED others

Strappend ==
    \E name \in Keys, value \in {PyStr("s"), PyStr("t")}, path \in OptPath :
        /\ call' = Recorded("strappend", [name |-> name, path |-> path, value |-> value],
                            strappend(name, value, path))
        /\ UNCHANGED others

Debug ==
    \E subcommand \in Subcommands, key \in OptKey, path \in OptPath :
        /\ call' = Recorded("debug", [name |-> key, path |-> path, subcommand |-> subcommand],
                            debug(subcommand, key, path))
        /\ UNCHANGED others

NextBuild ==
    \/ Arrappend
    \/ Arrindex
    \/ Arrinsert
    \/ Arrlen
    \/ Arrpop
    \/ Arrtrim
    \/ Type
    \/ Resp
    \/ Objkeys
    \/ Objlen
    \/ Numincrby
    \/ Clear
    \/ DeleteRec
    \/ GetRec
    \/ Mget
    \/ SetRec
    \/ Mset
    \/ Merge
    \/ StrlenRec
    \/ Toggle
    \/ Strappend
    \/ Debug

SpecBuild == Init /\ [][NextBuild]_vars

\* ------------------------------------------------------------------ claims
\* the commands the last call emitted
Cmds == [i \in 1..Len(call.emitted) |-> call.emitted[i].cmd]
IsFlag(tok) == tok \in {"NX", "XX"}
TtlGiven(a) == a.ttl # <<>> /\ a.ttl[1] > 0

\* C1: a set with both nx and xx fails with the argument error and neither
\* sends a command to the store nor queues one on any pipeline, on the client
\* and on a pipeline, with and without ttl; any other set emits a JSON.SET
\* with at most one of NX/XX, and that token is its last.
C1_SetNxXxExclusive ==
    [][(call' # call /\ call'.op = "set") =>
          IF call'.args.nx /\ call'.args.xx
          THEN /\ call'.raised = NxXxError
               /\ call'.emitted = <<>>
               /\ UNCHANGED <<doc, expiry, writer, pipe>>
          ELSE /\ call'.raised # NxXxError
               /\ call'.emitted # <<>>
               /\ LET c == call'.emitted[1].cmd
                  IN /\ c[1] = "JSON.SET"
                     /\ Cardinality({i \in 1..Len(c) : IsFlag(c[i])}) <= 1
                     /\ \A i \in 1..Len(c) : IsFlag(c[i]) => i = Len(c)
                     /\ call'.args.nx => c[Len(c)] = "NX"
                     /\ call'.args.xx => c[Len(c)] = "XX"]_vars

\* a pipeline holding a queued command rejects set(nx, xx, ttl=1): nothing
\* was emitted
C1_Witness ==
    /\ call.op = "set" /\ call.target = "user"
    /\ call.args.nx /\ call.args.xx /\ call.args.ttl = <<1>>
    /\ call.raised = NxXxError
    /\ pipe.user.command_stack # <<>>

\* C2: a set with a time to live queues JSON.SET then EXPIRE of the same key
\* on one transaction pipeline and executes it once; the store never stands
\* between the two commands, so a value written by such a set is never
\* readable without its expiry; the call returns the list of both results.
C2_SetWithTtlAtomic ==
    /\ (call.op = "set" /\ TtlGiven(call.args) /\ ~(call.args.nx /\ call.args.xx)) =>
          /\ Len(call.emitted) = 2
          /\ \A i \in 1..2 : call.emitted[i].dest = "inner"
          /\ Cmds[1] = set(call.args.name, call.args.path, call.args.obj,
                           call.args.nx, call.args.xx).cmd
          /\ Cmds[2] = <<"EXPIRE", call.args.name, IntTok(call.args.ttl[1])>>
          /\ (call.done /\ call.raised = <<>>) =>
                /\ call.ret[1] = "list"
                /\ Len(call.ret[2]) = 2
                /\ Len(call.reply) = 2
    /\ pipe.inner.state = "executing" =>
          /\ pipe.inner.transaction
          /\ Len(pipe.inner.replies) \in {0, Len(pipe.inner.command_stack)}
    /\ \A k \in Keys : writer[k] = "ttl" => expiry[k] > 0

\* a set with ttl has returned both results and its value is stored with
\* the expiry
C2_Witness ==
    /\ call.op = "set" /\ call.done /\ call.args.ttl = <<1>>
    /\ call.reply = <<<<"ok">>, <<"int", 1>>>>
    /\ writer[call.args.name] = "ttl"
    /\ expiry[call.args.name] = 1

\* C3: every operation called on an open pipeline, set with ttl > 0 included,
\* makes no round trip and appends its commands to that pipeline's queue.
C3_PipelineCallsOnlyEnqueue ==
    (call.target = "user" /\ call.op # "execute") =>
        /\ \A i \in 1..Len(call.emitted) : call.emitted[i].dest = "user"
        /\ call.reply = <<>>

Failed(replies) == {i \in 1..Len(replies) : replies[i] = <<"err">>}

\* C4 as stated: unless the caller asked for raise-on-first-error, a
\* non-transaction execute with a failing command returns all N results.
C4_ListUnlessRaiseRequested ==
    (/\ call.op = "execute" /\ call.done
     /\ ~pipe.user.transaction
     /\ Failed(call.reply) # {}
     /\ call.args.raise_on_error # <<TRUE>>) =>
        /\ call.raised = <<>>
        /\ call.ret[1] = "list"
        /\ Len(call.ret[2]) = Len(call.args.commands)

\* C4 amended: execute of a non-transaction pipeline called with
\* raise_on_error=False returns one result per queued command in submission
\* order, the error at each failing position and every other command's own
\* result at its position; with raise_on_error True, which is the default,
\* it raises the first error, and returns the full list when nothing failed.
C4_ExecuteResults ==
    (call.op = "execute" /\ call.done /\ ~pipe.user.transaction) =>
        LET cmds == call.args.commands
            first == CHOOSE i \in Failed(call.reply) : \A j \in Failed(call.reply) : i <= j
        IN IF call.args.raise_on_error # <<FALSE>> /\ Failed(call.reply) # {}
           THEN call.raised = <<"ResponseError", IntTok(first)>> /\ call.ret = <<>>
           ELSE /\ call.raised = <<>>
                /\ call.ret[1] = "list"
                /\ Len(call.ret[2]) = Len(cmds)
                /\ \A i \in 1..Len(cmds) :
                      /\ IsExc(call.ret[2][i]) <=> i \in Failed(call.reply)
                      /\ call.ret[2][i] = Callback(cmds[i], call.reply[i])

\* the first of two commands failed and the second's result is returned
C4_Witness ==
    /\ call.op = "execute" /\ call.done /\ ~pipe.user.transaction
    /\ call.args.raise_on_error = <<FALSE>>
    /\ Len(call.args.commands) = 2
    /\ call.reply = <<<<"err">>, <<"bulk", "null">>>>
    /\ call.ret = <<"list", <<<<"exc", "ResponseError">>, PyNone>>>>

\* C5 as stated: every operation with an optional path emits, with the path
\* omitted, exactly the command it emits for the explicit root path.
OptPathOps ==
    {"arrappend", "arrlen", "arrpop", "type", "resp", "objkeys", "objlen", "clear",
     "delete", "get", "strlen", "toggle", "strappend", "debug"}

\* the call's path argument, get's being its path list
PathArg(c) == IF c.op = "get" THEN c.args.args ELSE c.args.path

\* the command the operation builds for the same arguments and this path
WithPath(c, path) ==
    LET a == c.args
    IN CASE c.op = "arrappend" -> arrappend(a.name, path, a.args)
         [] c.op = "arrlen" -> arrlen(a.name, path)
         [] c.op = "arrpop" -> arrpop(a.name, path, a.index)
         [] c.op = "type" -> type(a.name, path)
         [] c.op = "resp" -> resp(a.name, path)
         [] c.op = "objkeys" -> objkeys(a.name, path)
         [] c.op = "objlen" -> objlen(a.name, path)
         [] c.op = "clear" -> clear(a.name, path)
         [] c.op = "delete" -> delete(a.name, path)
         [] c.op = "get" -> get(a.name, path, a.no_escape)
         [] c.op = "strlen" -> strlen(a.name, path)
         [] c.op = "toggle" -> toggle(a.name, path)
         [] c.op = "strappend" -> strappend(a.name, a.value, path)
         [] c.op = "debug" -> debug(a.subcommand, a.name, path)

\* a call of one of these operations that left the path out and built a
\* command that carries a path
PathOmitted(c) ==
    /\ c.op \in OptPathOps
    /\ PathArg(c) = <<>>
    /\ c.op = "debug" => (c.args.subcommand = "MEMORY" /\ c.args.name # <<>>)

HasToken(cmd, tok) == \E i \in 1..Len(cmd) : cmd[i] = tok

C5_OmittedPathIsRoot ==
    PathOmitted(call) =>
        /\ Len(call.emitted) = 1
        /\ Cmds[1] = WithPath(call, <<RootPath>>).cmd
        /\ HasToken(Cmds[1], RootPath)

\* C5 amended: every operation with an optional path other than strlen
\* emits, with the path omitted, exactly the command of the explicit root
\* path, the root-path token in it; strlen with the path omitted emits
\* JSON.STRLEN and the key alone, with no path token.
C5_OmittedPathIsRootButStrlen ==
    PathOmitted(call) =>
        /\ Len(call.emitted) = 1
        /\ IF call.op = "strlen"
           THEN Cmds[1] = <<"JSON.STRLEN", call.args.name>>
           ELSE /\ Cmds[1] = WithPath(call, <<RootPath>>).cmd
                /\ HasToken(Cmds[1], RootPath)

\* arrpop without a path emitted the root path
C5_Witness ==
    /\ call.op = "arrpop" /\ call.args.path = <<>> /\ call.args.index = <<1>>
    /\ Cmds = <<<<"JSON.ARRPOP", "k2", ".", "1">>>>

\* C6: get of a key that was never set, or was deleted, returns the absence
\* sentinel without raising, and get returns the sentinel only when the store
\* reported not-found, so never for a document whose value is JSON null.
Absent == PyNone

C6_AbsentOnlyWhenNotFound ==
    (call.op = "get" /\ call.done) =>
        /\ call.reply = <<"nil">> => (call.raised = <<>> /\ call.ret = Absent)
        /\ (call.raised = <<>> /\ call.ret = Absent) => call.reply = <<"nil">>

ModFlags == {"NX", "XX", "noescape"}

Verb(op) ==
    CASE op = "arrappend" -> "JSON.ARRAPPEND"
      [] op = "arrindex" -> "JSON.ARRINDEX"
      [] op = "arrinsert" -> "JSON.ARRINSERT"
      [] op = "arrlen" -> "JSON.ARRLEN"
      [] op = "arrpop" -> "JSON.ARRPOP"
      [] op = "arrtrim" -> "JSON.ARRTRIM"
      [] op = "type" -> "JSON.TYPE"
      [] op = "resp" -> "JSON.RESP"
      [] op = "objkeys" -> "JSON.OBJKEYS"
      [] op = "objlen" -> "JSON.OBJLEN"
      [] op = "numincrby" -> "JSON.NUMINCRBY"
      [] op = "clear" -> "JSON.CLEAR"
      [] op = "delete" -> "JSON.DEL"
      [] op = "get" -> "JSON.GET"
      [] op = "mget" -> "JSON.MGET"
      [] op = "set" -> "JSON.SET"
      [] op = "mset" -> "JSON.MSET"
      [] op = "merge" -> "JSON.MERGE"
      [] op = "strlen" -> "JSON.STRLEN"
      [] op = "toggle" -> "JSON.TOGGLE"
      [] op = "strappend" -> "JSON.STRAPPEND"
      [] op = "debug" -> "JSON.DEBUG"

\* operations whose command is the verb, the key, the path, then the payload
NamePathOps ==
    {"arrappend", "arrindex", "arrinsert", "arrlen", "arrpop", "arrtrim", "type",
     "resp", "objkeys", "objlen", "numincrby", "clear", "delete", "set", "merge",
     "toggle", "strappend"}

\* the path the call resolves to: required by some operations, optional
\* with the root path as default for the others
RequiredPathOps == {"arrindex", "arrinsert", "arrtrim", "numincrby", "set", "merge"}
ResolvedPath(c) ==
    IF c.op \in RequiredPathOps THEN c.args.path ELSE DefaultRoot(c.args.path)

\* the modifier flags are the last tokens of the command
FlagsLast(cmd) ==
    \A i \in 1..Len(cmd) : cmd[i] \in ModFlags => \A j \in i..Len(cmd) : cmd[j] \in ModFlags

\* C7 as stated: every command is the verb, then the key, then the path, then
\* the payload, with the modifier flags NX, XX and noescape last.
C7_VerbKeyPathPayloadFlags ==
    (call.op # "none" /\ call.emitted # <<>>) =>
        /\ Cmds[1][1] = Verb(call.op)
        /\ FlagsLast(Cmds[1])
        /\ call.op \in NamePathOps =>
              (Cmds[1][2] = call.args.name /\ Cmds[1][3] = ResolvedPath(call))

\* C7 amended: token 0 of every command is the operation's verb; the
\* operations taking a key and a path emit the key, then the path, then the
\* payload, and set emits NX or XX after these as its last token; get emits
\* the key, then noescape when asked for, then its paths, so its flag comes
\* before the paths and not last; debug emits its subcommand before the key
\* and the path.
C7_TokenOrder ==
    (call.op # "none" /\ call.emitted # <<>>) =>
        LET c == Cmds[1]
            a == call.args
        IN /\ c[1] = Verb(call.op)
           /\ call.op \in NamePathOps =>
                 /\ c[2] = a.name /\ c[3] = ResolvedPath(call)
                 /\ \A i \in 1..Len(c) : IsFlag(c[i]) => (call.op = "set" /\ i = Len(c) /\ i = 5)
           /\ call.op = "set" =>
                 /\ c[4] = _encode(a.obj)
                 /\ Len(c) = IF a.nx \/ a.xx THEN 5 ELSE 4
           /\ call.op = "get" =>
                 /\ c[2] = a.name
                 /\ a.no_escape => (c[3] = "noescape" /\ Len(c) > 3)
                 /\ \A i \in 1..Len(c) : c[i] = "noescape" => (a.no_escape /\ i = 3)
                 /\ c[Len(c)] \in Paths
           /\ call.op = "debug" =>
                 /\ c[2] = a.subcommand
                 /\ a.subcommand = "MEMORY" => c = <<"JSON.DEBUG", "MEMORY", a.name[1],
                                                      DefaultRoot(a.path)>>

\* get with noescape and a path put the flag before the path
C7_Witness ==
    /\ call.op = "get" /\ call.args.no_escape /\ call.args.args = <<".a">>
    /\ Cmds = <<<<"JSON.GET", "k1", "noescape", ".a">>>>

\* an error names x when x, or its repr, is one of the parts of its message
Names(exc, x) == \E i \in 2..Len(exc) : exc[i] = x \/ exc[i] = PyRepr(x)
InvalidDebug(c) == c.op = "debug" /\ ~InList(c.args.subcommand, valid_subcommands)

\* C8 as stated: debug with a subcommand outside MEMORY and HELP fails with
\* an argument error before any command is built or sent, and the error names
\* the invalid subcommand and the valid ones.
C8_DebugErrorNamesSubcommand ==
    InvalidDebug(call) =>
        /\ call.raised # <<>> /\ call.raised[1] = "DataError"
        /\ call.emitted = <<>>
        /\ Names(call.raised, call.args.subcommand)
        /\ \A i \in 1..Len(valid_subcommands) : Names(call.raised, valid_subcommands[i])

\* C8 amended: debug with a subcommand outside MEMORY and HELP fails with an
\* argument error before any command is built or sent, and the error names
\* the valid subcommands only, not the subcommand that was passed.
C8_DebugErrorNamesValidOnly ==
    InvalidDebug(call) =>
        /\ call.raised # <<>> /\ call.raised[1] = "DataError"
        /\ call.emitted = <<>>
        /\ ~Names(call.raised, call.args.subcommand)
        /\ \A i \in 1..Len(valid_subcommands) : Names(call.raised, valid_subcommands[i])

\* debug("STATS", key) was rejected
C8_Witness ==
    /\ call.op = "debug" /\ call.args.subcommand = "STATS" /\ call.args.name = <<"k1">>
    /\ call.raised = <<"DataError", "The only valid subcommands are ",
                       "[", "'MEMORY'", ", ", "'HELP'", "]">>

\* C9 as stated: a pipeline is single-use; once execute has returned no
\* command is appended to it and it is not executed again.
C9_SingleUse ==
    /\ nexec <= 1
    /\ nexec = 1 => pipe.user.command_stack = <<>>

\* C9 amended: a pipeline is reusable, not single-use: execute takes it from
\* open to executing and back to open, and when execute has returned the
\* pipeline is open again with its queue reset to empty, ready to have
\* commands appended and to be executed again.
C9_ResetAndReusable ==
    (call.op = "execute" /\ call.done) =>
        (pipe.user.state = "open" /\ pipe.user.command_stack = <<>>)

\* the second execute of the pipeline returned the commands queued after
\* the first
C9_Witness ==
    /\ nexec = 2 /\ call.op = "execute" /\ call.done
    /\ Len(call.args.commands) = 2
    /\ call.reply[1] = <<"bulk", "null">>
    /\ pipe.user.command_stack = <<>>

\* C10: arrindex emits the name, the path and the encoded scalar followed by
\* every bound the caller supplies, start before stop, so a supplied stop is
\* always emitted.
C10_ArrindexBounds ==
    call.op = "arrindex" =>
        LET a == call.args
        IN Cmds = <<<<"JSON.ARRINDEX", a.name, a.path, _encode(a.scalar)>>
                    \o (IF a.start # <<>> THEN <<IntTok(a.start[1])>> ELSE <<>>)
                    \o (IF a.stop # <<>> THEN <<IntTok(a.stop[1])>> ELSE <<>>)>>

\* the store serving the pipeline of a set with a time to live whose
\* conditional JSON.SET it does not apply
TtlSetNotApplied ==
    /\ pipe.inner.state = "executing"
    /\ pipe.inner.replies = <<>>
    /\ pipe'.inner.replies # <<>>
    /\ pipe'.inner.replies[1] = <<"nil">>

\* C11: a set with a time to live whose conditional JSON.SET the store does
\* not apply (nx on an existing key, xx on a missing key) leaves the key's
\* value and the key's expiry as they were before the call reached the store.
C11_UnappliedSetKeepsExpiry ==
    [][TtlSetNotApplied =>
          LET k == pipe.inner.args.name
          IN doc'[k] = doc[k] /\ expiry'[k] = expiry[k]]_vars

====
